---- MODULE Spec2Model ----
(***************************************************************************)
(* Model of the dimalimbo leaderboard store (SQLite-backed Storage and its *)
(* TopWinnersCache) and of the game session machine that drives it.        *)
(*                                                                         *)
(* Strings are sequences of UTF-8 bytes (integers), as Go's len() and      *)
(* slicing see them.                                                       *)
(***************************************************************************)
EXTENDS Integers, Sequences, FiniteSets, TLC

\* ------------------------------------------------------------------ bounds
MaxTime    == 1      \* the clock runs from 0 to MaxTime
MaxWrites  == 2      \* committed INSERT / DELETE statements per history
MaxPrior   == 10     \* rows a database file holds when the store is opened
MaxFrames  == 11     \* frames of one run
MaxTyped   == 1      \* bytes of a name typed in SpecGame
MaxRuns    == 1      \* committed writes after which no further run is started
MaxOdd     == 1      \* bytes other than 'A' in a name typed in SpecName
MaxSets    == 2      \* Set and InvalidateAll calls made on the cache directly
MaxClock   == 2      \* the clock runs from 0 to MaxClock under direct cache calls
MaxPlay    == 56     \* frames of one run in SpecPlay
MaxWeb     == 3      \* winners held by the localStorage item
MaxSpawn   == 1      \* frames of one run in SpecSpawn
MaxMove    == 90     \* frames of one run in SpecMove

Threads    == {"t1", "t2"}

\* ------------------------------------------------------------ small helpers
Min(a, b) == IF a < b THEN a ELSE b
Max(a, b) == IF a > b THEN a ELSE b
Range(s)  == {s[i] : i \in DOMAIN s}

\* the strings used as inputs: "", " ", "A", "B"
NameEmpty  == << >>
NameBlank  == <<32>>
NameA      == <<65>>
NameB      == <<66>>
NamePLAYER == <<80, 76, 65, 89, 69, 82>>

\* ------------------------------------------------------ strings.TrimSpace
IsSpaceByte(b) == b \in {9, 10, 11, 12, 13, 32}

RECURSIVE TrimLeft(_)
TrimLeft(s) ==
  IF s = << >> THEN << >>
  ELSE IF IsSpaceByte(Head(s)) THEN TrimLeft(Tail(s)) ELSE s

RECURSIVE TrimRight(_)
TrimRight(s) ==
  IF s = << >> THEN << >>
  ELSE IF IsSpaceByte(s[Len(s)]) THEN TrimRight(SubSeq(s, 1, Len(s) - 1)) ELSE s

TrimSpace(s) == TrimRight(TrimLeft(s))

\* ------------------------------------------------------------- the winners
\* model.Winner{ID, Name, Score, CreatedAt}
Winner(id, name, score, at) == [id |-> id, name |-> name, score |-> score, createdAt |-> at]

\* a faulty ordering: equal scores ordered by id descending
RanksBeforeIdDesc(a, b) == a.score > b.score \/ (a.score = b.score /\ a.id > b.id)

\* ORDER BY score DESC, id ASC
RanksBefore(a, b) == a.score > b.score \/ (a.score = b.score /\ a.id < b.id)

RECURSIVE OrderRows(_)
OrderRows(S) ==
  IF S = {} THEN << >>
  ELSE LET m == CHOOSE x \in S : \A y \in S \ {x} : RanksBefore(x, y)
       IN  <<m>> \o OrderRows(S \ {m})

\* a faulty query: the SELECT without its ORDER BY
QueryUnordered(rows, limit) == SubSeq(rows, 1, Min(limit, Len(rows)))

\* SELECT ... FROM winners ORDER BY score DESC, id ASC LIMIT ?
Query(rows, limit) ==
  LET o == OrderRows(Range(rows))
  IN  SubSeq(o, 1, Min(limit, Len(o)))

\* a faulty insert: the id is one above the greatest id the table holds
InsertRowAfterLast(rows, id, name, score, at) ==
  Append(rows, Winner(IF rows = << >> THEN 1 ELSE rows[Len(rows)].id + 1, name, score, at))

\* INSERT INTO winners(name, score) VALUES(?, ?): AUTOINCREMENT id, DEFAULT CURRENT_TIMESTAMP
InsertRow(rows, id, name, score, at) == Append(rows, Winner(id, name, score, at))

\* limit <= 0 is replaced by 10
DefaultLimit == 10

\* a faulty default: the limit is passed on as it is
NormLimitAsGiven(limit) == limit

NormLimit(limit) == IF limit <= 0 THEN DefaultLimit ELSE limit

\* --------------------------------------------------------- TopWinnersCache
\* cachedItem{winners, expiresAt}; ver is a history field: the number of
\* committed writes the winners were read after.
CachedItem(winners, expiresAt, ver) == [winners |-> winners, expiresAt |-> expiresAt, ver |-> ver]
NoItem == [winners |-> << >>, expiresAt |-> -1, ver |-> -1]

\* items is a map keyed by limit: a function whose domain is the set of keys
EmptyItems == << >>

\* item, ok := c.items[limit]
CacheLookup(its, limit) == IF limit \in DOMAIN its THEN its[limit] ELSE NoItem
CacheHas(its, limit)    == limit \in DOMAIN its

\* time.Now().After(item.expiresAt)
Expired(item, t) == t > item.expiresAt

\* delete(c.items, limit)
CacheDelete(its, limit) == [k \in (DOMAIN its) \ {limit} |-> its[k]]

\* c.items[limit] = cachedItem{winners, time.Now().Add(c.ttl)}
CacheSet(its, limit, winners, t, d, ver) ==
  [k \in (DOMAIN its) \cup {limit} |->
     IF k = limit THEN CachedItem(winners, t + d, ver) ELSE its[k]]

\* ------------------------------------------------------------------- state
VARIABLES
  db,        \* rows of the winners table, in rowid order
  nextId,    \* next AUTOINCREMENT id
  closed,    \* the sql.DB has been closed
  items,     \* TopWinnersCache.items
  ttl,       \* TopWinnersCache.ttl
  now,       \* the clock
  th,        \* per thread: position in the store call it is running, and its locals
  wver,      \* history: number of committed writes (INSERT or DELETE)
  retVer,    \* history: highest commit number of a SaveWinner that has returned nil
  dbHist,    \* history: every content the table has had
  last,      \* history (sequential callers): the call that returned last
  game,      \* the fields of Game
  sub,       \* history: the submit of the name entry that happened last
  cset,      \* history (direct cache calls): per limit, the last Set that no
             \* InvalidateAll and no other Set of that limit has followed
  webItem,   \* browser build: the localStorage item "dimalimbo_winners"
  held       \* the keys, gamepad axes and pointer the player holds

storeVars == <<db, nextId, closed, items, ttl, now>>
histVars  == <<wver, retVer, dbHist, last>>
vars      == <<db, nextId, closed, items, ttl, now, th, wver, retVer, dbHist, last, game, sub,
               cset, webItem, held>>
gameVars  == <<game, sub, held>>


\* ------------------------------------------------------- inputs of the calls
Scores    == {1, 2}
TTLs      == {0, 1}

\* a thread that is not inside a store call
IdleThread ==
  [pc |-> "idle", op |-> "none", name |-> << >>, score |-> 0, limit |-> 0,
   item |-> NoItem, out |-> << >>, err |-> "nil", found |-> FALSE,
   id |-> 0, ver |-> 0, need |-> 0, commit |-> 0, afterClose |-> FALSE]

\* the call a thread starts: its arguments and the history fields taken at the call
StartCall(t, op, name, score, limit) ==
  [IdleThread EXCEPT
     !.op = op, !.name = name, !.score = score, !.limit = limit,
     !.need = IF op = "TopWinners" THEN retVer ELSE 0,
     !.afterClose = closed /\ op # "Close"]

\* ------------------------------------------------------ Storage.SaveWinner
\* name check and INSERT (the statement either commits or fails as a whole)
SaveWinnerExec(t, name, score, ok) ==
  /\ th[t].pc = "idle"
  /\ LET c == StartCall(t, "SaveWinner", name, score, 0) IN
     IF name = << >> THEN
        /\ th' = [th EXCEPT ![t] = [c EXCEPT !.pc = "ret", !.err = "name required"]]
        /\ UNCHANGED <<db, nextId, wver, dbHist>>
     ELSE IF closed \/ ~ok THEN
        /\ th' = [th EXCEPT ![t] = [c EXCEPT !.pc = "ret", !.err = "db"]]
        /\ UNCHANGED <<db, nextId, wver, dbHist>>
     ELSE
        /\ wver < MaxWrites
        /\ db' = InsertRow(db, nextId, name, score, now)
        /\ nextId' = nextId + 1
        /\ wver' = wver + 1
        /\ dbHist' = dbHist \cup {db'}
        /\ th' = [th EXCEPT ![t] = [c EXCEPT !.pc = "sw_inval", !.commit = wver + 1,
                                             !.id = nextId]]
  /\ UNCHANGED <<closed, items, ttl, now, retVer, last>>
  /\ UNCHANGED <<gameVars, cset, webItem>>

\* a faulty SaveWinner: returns without invalidating the cache
SaveWinnerKeepCache(t) ==
  /\ th[t].pc = "sw_inval"
  /\ retVer' = Max(retVer, th[t].commit)
  /\ th' = [th EXCEPT ![t].pc = "ret"]
  /\ UNCHANGED <<db, nextId, closed, items, ttl, now, wver, dbHist, last>>
  /\ UNCHANGED <<gameVars, cset, webItem>>

\* s.cache.InvalidateAll(); return nil
SaveWinnerInvalidate(t) ==
  /\ th[t].pc = "sw_inval"
  /\ items' = EmptyItems
  /\ retVer' = Max(retVer, th[t].commit)
  /\ th' = [th EXCEPT ![t].pc = "ret"]
  /\ UNCHANGED <<db, nextId, closed, ttl, now, wver, dbHist, last>>
  /\ UNCHANGED <<gameVars, cset, webItem>>

\* ------------------------------------------------------ Storage.TopWinners
\* limit default, then the first half of cache.Get: the read of c.items[limit]
TopWinnersGet(t, limit) ==
  /\ th[t].pc = "idle"
  /\ LET l == NormLimit(limit)
         c == StartCall(t, "TopWinners", << >>, 0, l) IN
     th' = [th EXCEPT ![t] =
              [c EXCEPT !.item = CacheLookup(items, l),
                        !.pc = IF CacheHas(items, l) THEN "tw_check" ELSE "tw_query"]]
  /\ UNCHANGED <<storeVars, histVars>>
  /\ UNCHANGED <<gameVars, cset, webItem>>

\* second half of cache.Get: the expiry test against the clock
TopWinnersCheck(t) ==
  /\ th[t].pc = "tw_check"
  /\ IF Expired(th[t].item, now)
       THEN th' = [th EXCEPT ![t].pc = "tw_del"]
       ELSE th' = [th EXCEPT ![t].pc = "ret", ![t].out = th[t].item.winners,
                             ![t].ver = th[t].item.ver]
  /\ UNCHANGED <<storeVars, histVars>>
  /\ UNCHANGED <<gameVars, cset, webItem>>

\* cache.Get evicts the key it found expired
TopWinnersEvict(t) ==
  /\ th[t].pc = "tw_del"
  /\ items' = CacheDelete(items, th[t].limit)
  /\ th' = [th EXCEPT ![t].pc = "tw_query"]
  /\ UNCHANGED <<db, nextId, closed, ttl, now, histVars>>
  /\ UNCHANGED <<gameVars, cset, webItem>>

\* the SELECT and the scan of its rows
TopWinnersQuery(t, ok) ==
  /\ th[t].pc = "tw_query"
  /\ IF closed \/ ~ok
       THEN th' = [th EXCEPT ![t].pc = "ret", ![t].err = "db"]
       ELSE th' = [th EXCEPT ![t].pc = "tw_set", ![t].out = Query(db, th[t].limit),
                             ![t].ver = wver]
  /\ UNCHANGED <<storeVars, histVars>>
  /\ UNCHANGED <<gameVars, cset, webItem>>

\* s.cache.Set(limit, out); return out, nil
TopWinnersSet(t) ==
  /\ th[t].pc = "tw_set"
  /\ items' = CacheSet(items, th[t].limit, th[t].out, now, ttl, th[t].ver)
  /\ th' = [th EXCEPT ![t].pc = "ret"]
  /\ UNCHANGED <<db, nextId, closed, ttl, now, histVars>>
  /\ UNCHANGED <<gameVars, cset, webItem>>

\* ----------------------------------------------------------- Storage.Reset
\* DELETE FROM winners (one statement: it commits or fails as a whole)
ResetExec(t, ok) ==
  /\ th[t].pc = "idle"
  /\ LET c == StartCall(t, "Reset", << >>, 0, 0) IN
     IF closed \/ ~ok THEN
        /\ th' = [th EXCEPT ![t] = [c EXCEPT !.pc = "ret", !.err = "db"]]
        /\ UNCHANGED <<db, wver, dbHist>>
     ELSE
        /\ wver < MaxWrites
        /\ db' = << >>
        /\ wver' = wver + 1
        /\ dbHist' = dbHist \cup {db'}
        /\ th' = [th EXCEPT ![t] = [c EXCEPT !.pc = "rs_inval", !.commit = wver + 1]]
  /\ UNCHANGED <<nextId, closed, items, ttl, now, retVer, last>>
  /\ UNCHANGED <<gameVars, cset, webItem>>

\* a faulty Reset: returns without invalidating the cache
ResetKeepCache(t) ==
  /\ th[t].pc = "rs_inval"
  /\ th' = [th EXCEPT ![t].pc = "ret"]
  /\ UNCHANGED <<storeVars, histVars>>
  /\ UNCHANGED <<gameVars, cset, webItem>>

\* s.cache.InvalidateAll(); return nil
ResetInvalidate(t) ==
  /\ th[t].pc = "rs_inval"
  /\ items' = EmptyItems
  /\ th' = [th EXCEPT ![t].pc = "ret"]
  /\ UNCHANGED <<db, nextId, closed, ttl, now, histVars>>
  /\ UNCHANGED <<gameVars, cset, webItem>>

\* ----------------------------------------------------------- Storage.Close
Close(t) ==
  /\ th[t].pc = "idle"
  /\ closed' = TRUE
  /\ th' = [th EXCEPT ![t] = [StartCall(t, "Close", << >>, 0, 0) EXCEPT !.pc = "ret"]]
  /\ UNCHANGED <<db, nextId, items, ttl, now, histVars>>
  /\ UNCHANGED <<gameVars, cset, webItem>>

\* the call has returned to its caller
NoCall == [op |-> "none", err |-> "nil", id |-> 0, name |-> << >>, score |-> 0]
CallOf(r) ==
  IF r.err = "nil" /\ r.op \in {"SaveWinner", "Reset"}
    THEN [op |-> r.op, err |-> r.err, id |-> r.id, name |-> r.name, score |-> r.score]
    ELSE NoCall

Return(t, track) ==
  /\ th[t].pc = "ret"
  /\ th' = [th EXCEPT ![t] = IdleThread]
  /\ last' = IF track THEN CallOf(th[t]) ELSE last
  /\ UNCHANGED <<storeVars, wver, retVer, dbHist>>
  /\ UNCHANGED <<gameVars, cset, webItem>>

\* time passes
Tick ==
  /\ now < MaxTime
  /\ now' = now + 1
  /\ UNCHANGED <<db, nextId, closed, items, ttl, th, histVars>>
  /\ UNCHANGED <<gameVars, cset, webItem>>

\* ------------------------------------- TopWinnersCache, called directly
\* cset.seq counts the Set and InvalidateAll calls that have taken effect,
\* cset.m holds what the cache would hold if no Get ever deleted a key
NoSets == [seq |-> 0, m |-> EmptyItems]

\* Get, under the read lock: item, ok := c.items[limit]; need is a history
\* field: cset.seq at the call, or -1 when a Set or InvalidateAll of another
\* goroutine has not returned yet
CacheGetRead(t, limit) ==
  /\ th[t].pc = "idle"
  /\ LET busy == \E u \in Threads \ {t} :
                   th[u].pc # "idle" /\ th[u].op \in {"Set", "InvalidateAll"}
         c == [StartCall(t, "Get", << >>, 0, limit) EXCEPT
                 !.need = IF busy THEN -1 ELSE cset.seq] IN
     th' = [th EXCEPT ![t] =
              IF CacheHas(items, limit)
                THEN [c EXCEPT !.item = items[limit], !.pc = "cg_check"]
                ELSE [c EXCEPT !.pc = "ret", !.found = FALSE]]
  /\ UNCHANGED <<storeVars, histVars, gameVars, cset, webItem>>

\* Get, outside any lock: time.Now().After(item.expiresAt)
CacheGetCheck(t) ==
  /\ th[t].pc = "cg_check"
  /\ IF Expired(th[t].item, now)
       THEN th' = [th EXCEPT ![t].pc = "cg_del"]
       ELSE th' = [th EXCEPT ![t].pc = "ret", ![t].out = th[t].item.winners,
                             ![t].found = TRUE]
  /\ UNCHANGED <<storeVars, histVars, gameVars, cset, webItem>>

\* Get, under the write lock: delete(c.items, limit); return nil, false
CacheGetEvict(t) ==
  /\ th[t].pc = "cg_del"
  /\ items' = CacheDelete(items, th[t].limit)
  /\ th' = [th EXCEPT ![t].pc = "ret", ![t].found = FALSE]
  /\ UNCHANGED <<db, nextId, closed, ttl, now, histVars, gameVars, cset, webItem>>

\* Set, under the write lock
CacheSetCall(t, limit, winners) ==
  /\ th[t].pc = "idle"
  /\ cset.seq < MaxSets
  /\ items' = CacheSet(items, limit, winners, now, ttl, cset.seq + 1)
  /\ cset' = [seq |-> cset.seq + 1,
              m   |-> CacheSet(cset.m, limit, winners, now, ttl, cset.seq + 1)]
  /\ th' = [th EXCEPT ![t] = [StartCall(t, "Set", << >>, 0, limit) EXCEPT
                                !.pc = "ret", !.out = winners]]
  /\ UNCHANGED <<db, nextId, closed, ttl, now, histVars, gameVars, webItem>>

\* InvalidateAll, under the write lock
CacheInvalidateAll(t) ==
  /\ th[t].pc = "idle"
  /\ cset.seq < MaxSets
  /\ items' = EmptyItems
  /\ cset' = [seq |-> cset.seq + 1, m |-> EmptyItems]
  /\ th' = [th EXCEPT ![t] = [StartCall(t, "InvalidateAll", << >>, 0, 0) EXCEPT !.pc = "ret"]]
  /\ UNCHANGED <<db, nextId, closed, ttl, now, histVars, gameVars, webItem>>

\* time passes
CacheTick ==
  /\ now < MaxClock
  /\ now' = now + 1
  /\ UNCHANGED <<db, nextId, closed, items, ttl, th, histVars, gameVars, cset, webItem>>

\* ------------------------------------------ Storage of the browser build
\* The localStorage item is absent, the text json.Marshal wrote for a list of
\* winners, or a text that is not the JSON of such a list.
NoWebItem      == [kind |-> "absent", rows |-> << >>]
CorruptWebItem == [kind |-> "corrupt", rows |-> << >>]

\* json.Marshal(winners)
Marshal(rows) == [kind |-> "json", rows |-> rows]

\* getItem(...).String() and json.Unmarshal into an empty list: an absent item
\* reads as the text "<null>", which like any other non-JSON text leaves the
\* list empty and returns an error
Unmarshal(item) ==
  IF item.kind = "json" THEN [rows |-> item.rows, err |-> "nil"]
                        ELSE [rows |-> << >>, err |-> "syntax"]

\* winners[i], winners[j] = winners[j], winners[i]
SwapAt(w, i, j) == [w EXCEPT ![i] = w[j], ![j] = w[i]]

\* the two loops of the sort by score
RECURSIVE SortInner(_, _, _)
SortInner(w, i, j) ==
  IF j > Len(w) THEN w
  ELSE SortInner(IF w[j].score > w[i].score THEN SwapAt(w, i, j) ELSE w, i, j + 1)

RECURSIVE SortOuter(_, _)
SortOuter(w, i) == IF i > Len(w) THEN w ELSE SortOuter(SortInner(w, i, i + 1), i + 1)

\* the read of TopWinners after a cache miss: the Unmarshal error is dropped
WebRead(item, limit) ==
  LET u == Unmarshal(item)
      o == SortOuter(u.rows, 1)
  IN  [out |-> SubSeq(o, 1, Min(limit, Len(o))), err |-> "nil"]

\* TopWinners of the browser build, on the cache its and the item; the
\* browser runs one goroutine at a time, so the call is one step. read: the
\* call went to the item
WebTop(its, item, limit) ==
  LET l == NormLimit(limit)
      c == CacheLookup(its, l)
  IN  IF CacheHas(its, l) /\ ~Expired(c, now)
        THEN [items |-> its, out |-> c.winners, err |-> "nil", read |-> FALSE]
        ELSE LET its1 == IF CacheHas(its, l) THEN CacheDelete(its, l) ELSE its
                 r    == WebRead(item, l)
             IN  [items |-> CacheSet(its1, l, r.out, now, ttl, 0),
                  out |-> r.out, err |-> r.err, read |-> TRUE]

\* ver is a history field here: -1 when the call read an item that is not
\* the JSON of a list
WebTopWinners(t, limit) ==
  /\ th[t].pc = "idle"
  /\ \E r \in {WebTop(items, webItem, limit)} :
       /\ items' = r.items
       /\ th' = [th EXCEPT ![t] = [StartCall(t, "TopWinners", << >>, 0, NormLimit(limit)) EXCEPT
                                     !.pc = "ret", !.out = r.out, !.err = r.err,
                                     !.found = ~r.read,
                                     !.ver = IF r.read /\ webItem.kind = "corrupt"
                                               THEN -1 ELSE 0]]
  /\ UNCHANGED <<db, nextId, closed, ttl, now, histVars, gameVars, cset, webItem>>

\* SaveWinner of the browser build: the id is the clock reading
WebSaveWinner(t, name, score) ==
  /\ th[t].pc = "idle"
  /\ \E r \in {WebTop(items, webItem, 1000)} :
       /\ webItem' = Marshal(Append(r.out, Winner(now, name, score, now)))
       /\ items' = EmptyItems
       /\ th' = [th EXCEPT ![t] = [StartCall(t, "SaveWinner", name, score, 0) EXCEPT
                                     !.pc = "ret", !.id = now]]
  /\ UNCHANGED <<db, nextId, closed, ttl, now, histVars, gameVars, cset>>

\* Reset of the browser build
WebReset(t) ==
  /\ th[t].pc = "idle"
  /\ webItem' = NoWebItem
  /\ items' = EmptyItems
  /\ th' = [th EXCEPT ![t] = [StartCall(t, "Reset", << >>, 0, 0) EXCEPT !.pc = "ret"]]
  /\ UNCHANGED <<db, nextId, closed, ttl, now, histVars, gameVars, cset>>

\* the browser's storage is damaged: the item no longer holds the JSON of a list
WebCorrupt ==
  /\ webItem.kind = "json"
  /\ webItem' = CorruptWebItem
  /\ UNCHANGED <<storeVars, th, histVars, gameVars, cset>>

\* ==================================================================== Game
\* Lengths are in tenths of a pixel, so that the default speed step 0.4 is an
\* integer.
Px(n) == n * 10

screenWidth  == 800
screenHeight == 600

\* settings.Settings: the fields the game logic reads
DefaultCfg ==
  [BaseSpeed |-> Px(4), SpawnEveryStart |-> 60, SpawnEveryMin |-> 24,
   SpeedAccel |-> 4, AccelIntervalFrames |-> 300, TopN |-> 10]

\* a settings.json that ramps the speed by 120 px every frame
FastCfg ==
  [BaseSpeed |-> Px(4), SpawnEveryStart |-> 60, SpawnEveryMin |-> 24,
   SpeedAccel |-> Px(120), AccelIntervalFrames |-> 1, TopN |-> 10]

\* a settings.json that ramps the speed by 10.5 px every frame: the first
\* obstacle reaches the player on the 11th frame of a run
MedCfg ==
  [BaseSpeed |-> Px(4), SpawnEveryStart |-> 60, SpawnEveryMin |-> 24,
   SpeedAccel |-> 105, AccelIntervalFrames |-> 1, TopN |-> 10]

\* a settings.json that ramps every frame by the default step, with a floor
\* that the steps of 4 from 60 do not meet: obstacles pile up and leave the
\* field
SlowCfg ==
  [BaseSpeed |-> Px(4), SpawnEveryStart |-> 60, SpawnEveryMin |-> 10,
   SpeedAccel |-> 4, AccelIntervalFrames |-> 1, TopN |-> 10]

\* a settings.json with its own base speed and spawn interval, ramping every
\* third frame down to a floor of 40
StepCfg ==
  [BaseSpeed |-> Px(5), SpawnEveryStart |-> 48, SpawnEveryMin |-> 40,
   SpeedAccel |-> Px(2), AccelIntervalFrames |-> 3, TopN |-> 10]

\* a settings.json whose one ramp (frame 0) lifts the speed to 41 px a frame:
\* an obstacle is 21 px right of the left boundary after 19 frames and ends the
\* 20th with its right edge on the boundary
JumpCfg ==
  [BaseSpeed |-> Px(4), SpawnEveryStart |-> 60, SpawnEveryMin |-> 24,
   SpeedAccel |-> Px(37), AccelIntervalFrames |-> 300, TopN |-> 10]

\* a settings.json that is valid JSON and names none of these fields
ZeroCfg ==
  [BaseSpeed |-> 0, SpawnEveryStart |-> 0, SpawnEveryMin |-> 0,
   SpeedAccel |-> 0, AccelIntervalFrames |-> 0, TopN |-> 0]

Rect(x, y, w, h) == [x |-> x, y |-> y, w |-> w, h |-> h]

\* a faulty test: rectangles that share an edge count as overlapping
IntersectsOrTouches(r, o) ==
  r.x <= o.x + o.w /\ r.x + r.w >= o.x /\ r.y <= o.y + o.h /\ r.y + r.h >= o.y

\* rectangle.intersects
Intersects(r, o) ==
  r.x < o.x + o.w /\ r.x + r.w > o.x /\ r.y < o.y + o.h /\ r.y + r.h > o.y

StartRect == Rect(Px(60), Px(screenHeight \div 2 - 20), Px(30), Px(30))
PlayerVel == Px(4)

\* game.New; lastSpawn is a history field: the frame of the run's last spawn,
\* -1 before the first
NewGame(cfg) ==
  [state |-> "Title", player |-> StartRect, obstacles |-> << >>,
   score |-> 0, frames |-> 0, nameInput |-> << >>, leaders |-> << >>,
   seeded |-> FALSE, speed |-> cfg.BaseSpeed, spawnEvery |-> cfg.SpawnEveryStart,
   cfg |-> cfg, panicked |-> FALSE, lastSpawn |-> -1]

\* Game.spawnObstacle; d is the pair of random draws (height, y)
SpawnObstacle(obs, d) == Append(obs, Rect(Px(screenWidth), Px(d.y), Px(20), Px(d.h)))

\* a faulty draw: the vertical position is drawn without regard to the height
IsDrawAnyY(d) == d.h \in 40..179 /\ d.y \in 0..(screenHeight - 1)

\* the draws spawnObstacle can make: 40 + Intn(140), Intn(screenHeight - height)
IsDraw(d) == d.h \in 40..179 /\ d.y \in 0..(screenHeight - d.h - 1)

\* Game.resetPlay
ResetPlay(g) ==
  [g EXCEPT !.player = StartRect, !.obstacles = << >>, !.score = 0, !.frames = 0,
            !.speed = Px(4), !.spawnEvery = 60, !.lastSpawn = -1]

\* ------------------------------------------- the store, called by the game
\* the store as one value, so that an Update can make several calls in a row
CurStore == [db |-> db, nextId |-> nextId, items |-> items, wver |-> wver, dbHist |-> dbHist]

SetStore(S) ==
  /\ db' = S.db
  /\ nextId' = S.nextId
  /\ items' = S.items
  /\ wver' = S.wver
  /\ dbHist' = S.dbHist

\* Storage.TopWinners as one call; ok: the database answers the SELECT
CallTopWinners(S, limit, ok) ==
  LET l    == NormLimit(limit)
      item == CacheLookup(S.items, l)
  IN  IF CacheHas(S.items, l) /\ ~Expired(item, now)
        THEN [S |-> S, out |-> item.winners, err |-> "nil"]
        ELSE LET its == IF CacheHas(S.items, l) THEN CacheDelete(S.items, l) ELSE S.items
             IN  IF closed \/ ~ok
                   THEN [S |-> [S EXCEPT !.items = its], out |-> << >>, err |-> "db"]
                   ELSE LET out == Query(S.db, l)
                        IN  [S |-> [S EXCEPT !.items = CacheSet(its, l, out, now, ttl, S.wver)],
                             out |-> out, err |-> "nil"]

\* a faulty SaveWinner: the INSERT without the cache invalidation
CallSaveWinnerKeepCache(S, name, score, ok) ==
  IF name = << >> THEN [S |-> S, err |-> "name required"]
  ELSE IF closed \/ ~ok THEN [S |-> S, err |-> "db"]
  ELSE LET rows == InsertRow(S.db, S.nextId, name, score, now)
       IN  [S |-> [S EXCEPT !.db = rows, !.nextId = @ + 1, !.wver = @ + 1,
                            !.dbHist = @ \cup {rows}],
            err |-> "nil"]

\* Storage.SaveWinner as one call; ok: the database accepts the INSERT
CallSaveWinner(S, name, score, ok) ==
  IF name = << >> THEN [S |-> S, err |-> "name required"]
  ELSE IF closed \/ ~ok THEN [S |-> S, err |-> "db"]
  ELSE LET rows == InsertRow(S.db, S.nextId, name, score, now)
       IN  [S |-> [S EXCEPT !.db = rows, !.nextId = @ + 1, !.wver = @ + 1,
                            !.dbHist = @ \cup {rows}, !.items = EmptyItems],
            err |-> "nil"]

\* Storage.Reset as one call; ok: the database accepts the DELETE
CallReset(S, ok) ==
  IF closed \/ ~ok THEN [S |-> S, err |-> "db"]
  ELSE [S |-> [S EXCEPT !.db = << >>, !.wver = @ + 1, !.dbHist = @ \cup {<< >>},
                       !.items = EmptyItems],
        err |-> "nil"]

\* ------------------------------------------------------------- Game.Update
\* the head of Update: the first call loads the leaderboard
Seed(g, S, ok) ==
  IF g.seeded THEN [g |-> g, S |-> S]
  ELSE LET r == CallTopWinners(S, g.cfg.TopN, ok)
       IN  [g |-> [g EXCEPT !.seeded = TRUE, !.leaders = r.out], S |-> r.S]

\* sub records the submit of the run in progress: the buffer, the name passed to
\* SaveWinner, the score, what the two store calls and Update returned
NoSubmit == [buf |-> << >>, name |-> << >>, score |-> 0, saveErr |-> "none",
             topErr |-> "none", ret |-> "none"]

\* case stateTitle
UpdateTitle(in, okSeed) ==
  /\ game.state = "Title" /\ ~game.panicked
  /\ \E sd \in {Seed(game, CurStore, okSeed)} :
       /\ IF in.space \/ in.click \/ in.touch \/ in.pad
            THEN game' = [ResetPlay(sd.g) EXCEPT !.state = "Playing"] /\ sub' = NoSubmit
            ELSE game' = sd.g /\ sub' = sub
       /\ SetStore(sd.S)
  /\ UNCHANGED <<closed, ttl, now, th, retVer, last, cset, webItem, held>>

\* the movement inputs of a tick when nothing is pressed or touched
NoPtr == [dx |-> 0, dy |-> 0]
NoMove ==
  [touch |-> FALSE, mouseDown |-> FALSE, ptr |-> NoPtr,
   up |-> FALSE, down |-> FALSE, left |-> FALSE, right |-> FALSE]

\* the player's movement: drag toward the touch or the pressed mouse, then keys
\* and gamepad axes; in.ptr is playerVel times the unit vector toward the target
\* (zero when the target is within 1 px)
MovePlayer(r, in) ==
  [r EXCEPT
     !.x = @ + (IF in.touch \/ in.mouseDown THEN in.ptr.dx ELSE 0)
             - (IF in.left THEN PlayerVel ELSE 0) + (IF in.right THEN PlayerVel ELSE 0),
     !.y = @ + (IF in.touch \/ in.mouseDown THEN in.ptr.dy ELSE 0)
             - (IF in.up THEN PlayerVel ELSE 0) + (IF in.down THEN PlayerVel ELSE 0)]

\* clamp to screen: x < 0, y < 0, x + w > screenWidth, y + h > screenHeight, in turn
ClampLow(v) == IF v < 0 THEN 0 ELSE v
\* a faulty clamp: the far edge is tested without the size of the rectangle
ClampHighOfOrigin(v, size, limit) == IF v > limit THEN limit - size ELSE v

ClampHigh(v, size, limit) == IF v + size > limit THEN limit - size ELSE v
Clamp(r) ==
  [r EXCEPT !.x = ClampHigh(ClampLow(@), r.w, Px(screenWidth)),
            !.y = ClampHigh(ClampLow(@), r.h, Px(screenHeight))]

StillLiveAlways(o) == TRUE

\* an obstacle is kept while its right edge is right of the left boundary
StillLive(o) == o.x + o.w > 0

\* the loop over g.obstacles: alive grows in the array of g.obstacles itself,
\* and a hit returns before g.obstacles = alive, leaving the slice with its old
\* length over the partly rewritten array
RECURSIVE MoveObstacles(_, _, _, _, _)
MoveObstacles(obs, i, alive, player, speed) ==
  IF i > Len(obs) THEN [hit |-> FALSE, obstacles |-> alive]
  ELSE LET o  == [obs[i] EXCEPT !.x = @ - speed]
           al == IF StillLive(o) THEN Append(alive, o) ELSE alive
       IN  IF Intersects(player, o)
             THEN [hit |-> TRUE, obstacles |-> al \o SubSeq(obs, Len(al) + 1, Len(obs))]
             ELSE MoveObstacles(obs, i + 1, al, player, speed)

\* a faulty ramp: the speed step is left out while the player is off its start row
RampOnStartRow(g) ==
  [g EXCEPT !.spawnEvery = IF @ > g.cfg.SpawnEveryMin THEN @ - 4 ELSE @,
            !.speed = IF g.player.y = StartRect.y THEN @ + g.cfg.SpeedAccel ELSE @]

\* a faulty ramp: the speed step is taken only together with the interval step
RampWhileAboveFloor(g) ==
  IF g.spawnEvery > g.cfg.SpawnEveryMin
    THEN [g EXCEPT !.spawnEvery = @ - 4, !.speed = @ + g.cfg.SpeedAccel]
    ELSE g

\* the difficulty ramp of a frame that is a multiple of AccelIntervalFrames
Ramp(g) ==
  [g EXCEPT !.spawnEvery = IF @ > g.cfg.SpawnEveryMin THEN @ - 4 ELSE @,
            !.speed = @ + g.cfg.SpeedAccel]

\* a faulty count: the score cadence is tested before the frame is counted
CountFrameTestFirst(g) ==
  [g EXCEPT !.frames = @ + 1, !.score = IF g.frames % 10 = 0 THEN @ + 1 ELSE @]

\* the end of a Playing tick without a hit
CountFrame(g) ==
  [g EXCEPT !.frames = @ + 1, !.score = IF (g.frames + 1) % 10 = 0 THEN @ + 1 ELSE @]

\* a faulty hit: the name of the run before stays in the buffer
CollidedKeepName(g, obs) == [g EXCEPT !.obstacles = obs, !.state = "NameEntry"]

\* the hit of the obstacle loop: the state moves on, the name buffer is
\* cleared, and Update returns before the frame is counted
Collided(g, obs) ==
  [g EXCEPT !.obstacles = obs, !.state = "NameEntry", !.nameInput = << >>]

\* case statePlaying; d: the draws of a spawn on this tick. A modulus of zero
\* panics.
UpdatePlaying(in, d, okSeed) ==
  /\ game.state = "Playing" /\ ~game.panicked
  /\ \E sd \in {Seed(game, CurStore, okSeed)} :
     \E g1 \in {[sd.g EXCEPT !.player = Clamp(MovePlayer(@, in))]} :
       /\ SetStore(sd.S)
       /\ IF g1.spawnEvery = 0 THEN game' = [g1 EXCEPT !.panicked = TRUE]
          ELSE
          \E g2 \in {IF g1.frames % g1.spawnEvery = 0
                       THEN [g1 EXCEPT !.obstacles = SpawnObstacle(@, d),
                                       !.lastSpawn = g1.frames]
                       ELSE g1} :
            IF g2.cfg.AccelIntervalFrames = 0 THEN game' = [g2 EXCEPT !.panicked = TRUE]
            ELSE
            \E g3 \in {IF g2.frames % g2.cfg.AccelIntervalFrames = 0 THEN Ramp(g2) ELSE g2} :
            \E mv \in {MoveObstacles(g3.obstacles, 1, << >>, g3.player, g3.speed)} :
              IF mv.hit
                THEN game' = Collided(g3, mv.obstacles)
                ELSE game' = CountFrame([g3 EXCEPT !.obstacles = mv.obstacles])
  /\ UNCHANGED <<closed, ttl, now, th, retVer, last, sub, cset, webItem, held>>

\* the loop over ebiten.InputChars(); a rune is the sequence of its UTF-8 bytes
RECURSIVE TypeChars(_, _)
TypeChars(buf, chars) ==
  IF chars = << >> THEN buf
  ELSE IF Head(chars) = <<10>> \/ Head(chars) = <<13>> THEN TypeChars(buf, Tail(chars))
  ELSE IF Len(buf) < 16 THEN TypeChars(buf \o Head(chars), Tail(chars))
  ELSE TypeChars(buf, Tail(chars))

\* backspace: g.nameInput[:len(g.nameInput)-1]
Backspace(buf) == SubSeq(buf, 1, Len(buf) - 1)

\* the name passed to SaveWinner
SubmitName(buf) == IF TrimSpace(buf) = << >> THEN NamePLAYER ELSE TrimSpace(buf)

\* a faulty submit: the state advances only when the save succeeded
SubmittedOnlyIfSaved(g, buf, sv, tw) ==
  IF sv.err = "nil"
    THEN [g EXCEPT !.nameInput = buf, !.leaders = tw.out, !.state = "Leaderboard"]
    ELSE [g EXCEPT !.nameInput = buf]

\* the game after a submit: sv and tw are what SaveWinner and TopWinners
\* returned, both errors are dropped
Submitted(g, buf, sv, tw) ==
  [g EXCEPT !.nameInput = buf, !.leaders = tw.out, !.state = "Leaderboard"]

\* case stateNameEntry
UpdateNameEntry(in, okSeed, okSave, okTop) ==
  /\ game.state = "NameEntry" /\ ~game.panicked
  /\ \E sd \in {Seed(game, CurStore, okSeed)} :
     \E b1 \in {TypeChars(sd.g.nameInput, in.chars)} :
     \E b2 \in {IF in.backspace /\ Len(b1) > 0 THEN Backspace(b1) ELSE b1} :
       IF in.enter \/ in.space \/ in.click \/ ~in.touch
         THEN \E name \in {SubmitName(b2)} :
              \E sv \in {CallSaveWinner(sd.S, name, sd.g.score, okSave)} :
              \E tw \in {CallTopWinners(sv.S, sd.g.cfg.TopN, okTop)} :
                /\ game' = Submitted(sd.g, b2, sv, tw)
                /\ SetStore(tw.S)
                /\ sub' = [buf |-> b2, name |-> name, score |-> sd.g.score,
                           saveErr |-> sv.err, topErr |-> tw.err, ret |-> "nil"]
         ELSE /\ game' = [sd.g EXCEPT !.nameInput = b2]
              /\ SetStore(sd.S)
              /\ sub' = sub
  /\ UNCHANGED <<closed, ttl, now, th, retVer, last, cset, webItem, held>>

\* a faulty leaderboard exit: Space restarts the run at once
LeaveBoardToPlaying(g, in) ==
  IF in.space \/ in.pad THEN [ResetPlay(g) EXCEPT !.state = "Playing"] ELSE g

\* Space or the gamepad button leaves the leaderboard
LeaveBoard(g, in) == IF in.space \/ in.pad THEN [g EXCEPT !.state = "Title"] ELSE g

\* case stateLeaderboard
UpdateLeaderboard(in, okSeed, okReset, okTop) ==
  /\ game.state = "Leaderboard" /\ ~game.panicked
  /\ \E sd \in {Seed(game, CurStore, okSeed)} :
     \E g1 \in {LeaveBoard(sd.g, in)} :
       IF in.keyR
         THEN \E rs \in {CallReset(sd.S, okReset)} :
              \E tw \in {CallTopWinners(rs.S, g1.cfg.TopN, okTop)} :
                /\ game' = [g1 EXCEPT !.leaders = tw.out]
                /\ SetStore(tw.S)
         ELSE /\ game' = g1
              /\ SetStore(sd.S)
  /\ UNCHANGED <<closed, ttl, now, th, retVer, last, sub, cset, webItem, held>>

\* ---------------------------------------------------------- specifications
\* the steps of thread t; NS and LS are the names and limits its calls pass
Calls(t, NS, LS) ==
  \/ \E n \in NS, s \in Scores, ok \in BOOLEAN : SaveWinnerExec(t, n, s, ok)
  \/ SaveWinnerInvalidate(t)
  \/ \E l \in LS : TopWinnersGet(t, l)
  \/ TopWinnersCheck(t)
  \/ TopWinnersEvict(t)
  \/ \E ok \in BOOLEAN : TopWinnersQuery(t, ok)
  \/ TopWinnersSet(t)
  \/ \E ok \in BOOLEAN : ResetExec(t, ok)
  \/ ResetInvalidate(t)

\* what NewStorage and game.New leave, given the rows the database file holds
\* and the settings
StoreInit(rows, cfg) ==
  /\ db = rows
  /\ nextId = Len(rows) + 1
  /\ closed = FALSE
  /\ items = EmptyItems
  /\ ttl \in TTLs
  /\ now = 0
  /\ th = [t \in Threads |-> IdleThread]
  /\ wver = 0
  /\ retVer = 0
  /\ dbHist = {rows}
  /\ last = NoCall
  /\ game = NewGame(cfg)
  /\ sub = NoSubmit
  /\ cset = NoSets
  /\ webItem = NoWebItem
  /\ held = NoMove

\* rows left in the database file by earlier runs: k rows, the first j with score 2
PriorRows(k, j) == [i \in 1..k |-> Winner(i, NameB, IF i <= j THEN 2 ELSE 1, 0)]

\* Spec: goroutines calling SaveWinner, TopWinners and Reset concurrently on a
\* store opened on a database file that holds one row
Init == StoreInit(PriorRows(1, 0), DefaultCfg)

Next ==
  \/ \E t \in Threads : Calls(t, {NameA}, {2})
  \/ \E t \in Threads : Return(t, FALSE)
  \/ Tick

Spec == Init /\ [][Next]_vars

\* SpecSeq: one caller, so that store calls never overlap; the database file
\* is fresh or holds MaxPrior rows
PriorDBs == {PriorRows(k, j) : k \in {0, MaxPrior}, j \in {0, MaxPrior - 1, MaxPrior}}

InitSeq == \E rows \in PriorDBs : StoreInit(rows, DefaultCfg)

NextSeq ==
  \/ Calls("t1", {NameEmpty, NameBlank, NameA}, {0, 1})
  \/ Close("t1")
  \/ Return("t1", TRUE)
  \/ Tick

SpecSeq == InitSeq /\ [][NextSeq]_vars

\* SpecCache: goroutines calling Get, Set and InvalidateAll on one cache
CacheLimits == {1, 2}
CacheValues == {<<Winner(1, NameA, 1, 0)>>, <<Winner(2, NameB, 2, 0)>>}

InitCache == StoreInit(<< >>, DefaultCfg)

NextCache ==
  \/ \E t \in Threads, l \in CacheLimits : CacheGetRead(t, l)
  \/ \E t \in Threads : CacheGetCheck(t)
  \/ \E t \in Threads : CacheGetEvict(t)
  \/ \E t \in Threads, l \in CacheLimits, v \in CacheValues : CacheSetCall(t, l, v)
  \/ \E t \in Threads : CacheInvalidateAll(t)
  \/ \E t \in Threads : Return(t, FALSE)
  \/ CacheTick

SpecCache == InitCache /\ [][NextCache]_vars

\* SpecWeb: the browser build's Storage, called by its one goroutine
WebLimits == {0, 1, 2}

InitWeb == StoreInit(<< >>, DefaultCfg)

NextWeb ==
  \/ /\ webItem.kind # "json" \/ Len(webItem.rows) < MaxWeb
     /\ \E n \in {NameA, NameB}, sc \in Scores : WebSaveWinner("t1", n, sc)
  \/ \E l \in WebLimits : WebTopWinners("t1", l)
  \/ WebReset("t1")
  \/ WebCorrupt
  \/ Return("t1", FALSE)
  \/ Tick

SpecWeb == InitWeb /\ [][NextWeb]_vars

\* ------------------------------------------------------------ the game loop
\* the inputs of a tick, by the state that reads them
NoTitleInput == [space |-> FALSE, click |-> FALSE, touch |-> FALSE, pad |-> FALSE]
TitleInputs ==
  {NoTitleInput, [NoTitleInput EXCEPT !.space = TRUE], [NoTitleInput EXCEPT !.click = TRUE],
   [NoTitleInput EXCEPT !.touch = TRUE], [NoTitleInput EXCEPT !.pad = TRUE]}
BoardInputs == [keyR : BOOLEAN, space : BOOLEAN, pad : BOOLEAN]

KeyInputs ==
  {NoMove, [NoMove EXCEPT !.up = TRUE], [NoMove EXCEPT !.down = TRUE],
   [NoMove EXCEPT !.left = TRUE], [NoMove EXCEPT !.right = TRUE],
   [NoMove EXCEPT !.up = TRUE, !.down = TRUE]}
\* a drag toward a target below and right of the player (unit vector 0.6, 0.8)
DragInputs ==
  {[NoMove EXCEPT !.touch = TRUE, !.ptr = [dx |-> 24, dy |-> 32]],
   [NoMove EXCEPT !.mouseDown = TRUE, !.ptr = [dx |-> 24, dy |-> 32]]}

\* a finger resting on the screen keeps the name entry open
HeldTouch == [enter |-> FALSE, space |-> FALSE, click |-> FALSE, touch |-> TRUE]
SubmitInputs ==
  {HeldTouch, [HeldTouch EXCEPT !.enter = TRUE], [HeldTouch EXCEPT !.space = TRUE],
   [HeldTouch EXCEPT !.click = TRUE], [HeldTouch EXCEPT !.touch = FALSE]}
NameInputs(chunks) ==
  {[chars |-> c, backspace |-> b, enter |-> k.enter, space |-> k.space,
    click |-> k.click, touch |-> k.touch] : c \in chunks, b \in BOOLEAN, k \in SubmitInputs}

\* the runes typed: 'A', ' ', '\n', '\r' and the three-byte euro sign
RuneA    == <<65>>
RuneSP   == <<32>>
RuneNL   == <<10>>
RuneCR   == <<13>>
RuneEuro == <<226, 130, 172>>

\* a spawn high above the player, one at the bottom edge, one across the player's row
SpawnDraws == {[h |-> 40, y |-> 0], [h |-> 179, y |-> 420], [h |-> 179, y |-> 200]}

\* a write of the game is let through only while the history has room for it
MayWrite == IF wver < MaxWrites THEN BOOLEAN ELSE {FALSE}

\* the first Update may find the database failing
MaySeed == IF game.seeded THEN {TRUE} ELSE BOOLEAN

\* a tick draws only when it spawns
Draws == IF game.spawnEvery # 0 /\ game.frames % game.spawnEvery = 0
           THEN SpawnDraws ELSE {[h |-> 40, y |-> 0]}

TickTitle(TI) ==
  \E in \in TI, ok \in MaySeed : UpdateTitle(in, ok)

TickPlaying(PI) ==
  /\ game.frames < MaxFrames
  /\ \E in \in PI, d \in Draws, ok \in MaySeed : UpdatePlaying(in, d, ok)

TickNameEntry(chunks) ==
  \E in \in NameInputs(chunks), ok \in MaySeed, okSave \in MayWrite, okTop \in BOOLEAN :
     UpdateNameEntry(in, ok, okSave, okTop)

TickLeaderboard ==
  \E in \in BoardInputs, ok \in MaySeed, okReset \in MayWrite, okTop \in BOOLEAN :
     UpdateLeaderboard(in, ok, okReset, okTop)

\* SpecGame: the game loop on a fresh database file, with the default settings
\* or with a ramp that ends the run on its 11th frame
InitGame == \E cfg \in {DefaultCfg, MedCfg} : StoreInit(<< >>, cfg)

\* the moves of a run in SpecGame: none, a key, a drag
GameMoves ==
  {NoMove, [NoMove EXCEPT !.up = TRUE],
   [NoMove EXCEPT !.touch = TRUE, !.ptr = [dx |-> 24, dy |-> 32]]}

GameChunks == {<< >>, <<RuneA>>, <<RuneSP>>, <<RuneNL, RuneA>>}

NextGame ==
  \/ TickTitle(IF wver < MaxRuns THEN TitleInputs ELSE {NoTitleInput})
  \/ TickPlaying(GameMoves)
  \/ /\ Len(game.nameInput) < MaxTyped
     /\ TickNameEntry(GameChunks)
  \/ TickNameEntry({<< >>})
  \/ TickLeaderboard
  \/ Tick

SpecGame == InitGame /\ [][NextGame]_vars

\* SpecName: the name entry, reached by the shortest run (fast ramp, no move,
\* an obstacle across the player's row); names of up to 16 bytes and more
\* are typed a rune or five at a time
InitName == StoreInit(<< >>, FastCfg)

OddBytes(buf) == Cardinality({i \in 1..Len(buf) : buf[i] # 65})

PlainChunks == {<<RuneA>>, <<RuneA, RuneA, RuneA, RuneA, RuneA>>}
OddChunks   == {<<RuneSP>>, <<RuneEuro>>, <<RuneCR, RuneSP>>}

NextName ==
  \/ TickTitle(IF wver < MaxRuns THEN {[NoTitleInput EXCEPT !.space = TRUE]}
                                 ELSE {NoTitleInput})
  \/ /\ game.frames < MaxFrames
     /\ UpdatePlaying(NoMove, [h |-> 179, y |-> 200], TRUE)
  \/ TickNameEntry(PlainChunks)
  \/ /\ OddBytes(game.nameInput) < MaxOdd
     /\ TickNameEntry(OddChunks)
  \/ TickNameEntry({<< >>})
  \/ TickLeaderboard

SpecName == InitName /\ [][NextName]_vars

\* SpecPlay: whole runs of up to MaxPlay frames with the player at rest, under
\* several settings files; an obstacle is spawned clear of the player's row,
\* across it, or touching its upper edge
PlayCfgs == {DefaultCfg, SlowCfg, StepCfg, ZeroCfg}

InitPlay == \E cfg \in PlayCfgs : StoreInit(<< >>, cfg)

PlayDraws == {[h |-> 40, y |-> 0], [h |-> 179, y |-> 200], [h |-> 40, y |-> 240]}

StartInput  == [NoTitleInput EXCEPT !.space = TRUE]
SubmitInput == [chars |-> << >>, backspace |-> FALSE, enter |-> TRUE, space |-> FALSE,
                click |-> FALSE, touch |-> FALSE]
LeaveInput  == [keyR |-> FALSE, space |-> TRUE, pad |-> FALSE]

NextPlay ==
  \/ TickTitle(IF wver < MaxRuns THEN {StartInput} ELSE {NoTitleInput})
  \/ /\ game.frames < MaxPlay
     /\ \E d \in (IF Draws = SpawnDraws THEN PlayDraws ELSE Draws) :
          UpdatePlaying(NoMove, d, TRUE)
  \/ \E okSave \in MayWrite : UpdateNameEntry(SubmitInput, TRUE, okSave, TRUE)
  \/ UpdateLeaderboard(LeaveInput, TRUE, TRUE, TRUE)

SpecPlay == InitPlay /\ [][NextPlay]_vars

\* the same runs on a desktop, where ebiten calls Update on every frame for as
\* long as the process lives
FairPlay == SpecPlay /\ WF_vars(NextPlay)

\* SpecBoard: runs that end by collision on their 11th frame with score 1, on
\* a working store whose file is fresh or holds MaxPrior - 1 or MaxPrior rows
\* of score 1
BoardDBs == {<< >>, PriorRows(MaxPrior - 1, 0), PriorRows(MaxPrior, 0)}

InitBoard == \E rows \in BoardDBs : StoreInit(rows, MedCfg)

ResetInput == [keyR |-> TRUE, space |-> FALSE, pad |-> FALSE]

NextBoard ==
  \/ UpdateTitle(IF wver < MaxRuns THEN StartInput ELSE NoTitleInput, TRUE)
  \/ TickPlaying({NoMove})
  \/ /\ wver < MaxWrites
     /\ \E in \in NameInputs(IF Len(game.nameInput) < MaxTyped THEN GameChunks ELSE {<< >>}) :
          UpdateNameEntry(in, TRUE, TRUE, TRUE)
  \/ \E in \in BoardInputs :
       /\ in.keyR => wver < MaxWrites
       /\ UpdateLeaderboard(in, TRUE, TRUE, TRUE)
  \/ Tick

SpecBoard == InitBoard /\ [][NextBoard]_vars

\* SpecRerun: run after run on a working store, each ending by collision on
\* its 11th frame and submitted under a name of up to MaxTyped bytes
InitRerun == StoreInit(<< >>, MedCfg)

NextRerun ==
  \/ UpdateTitle(IF wver < MaxWrites THEN StartInput ELSE NoTitleInput, TRUE)
  \/ TickPlaying({NoMove})
  \/ /\ wver < MaxWrites
     /\ \E in \in NameInputs(IF Len(game.nameInput) < MaxTyped THEN GameChunks ELSE {<< >>}) :
          UpdateNameEntry(in, TRUE, TRUE, TRUE)
  \/ UpdateLeaderboard(LeaveInput, TRUE, TRUE, TRUE)

SpecRerun == InitRerun /\ [][NextRerun]_vars

\* SpecSpawn: the first frames of a run under the default settings, with every
\* outcome of the two draws of spawnObstacle
AllDraws == {d \in [h : 0..(screenHeight - 1), y : 0..(screenHeight - 1)] : IsDraw(d)}

InitSpawn == StoreInit(<< >>, DefaultCfg)

NextSpawn ==
  \/ UpdateTitle(StartInput, TRUE)
  \/ /\ game.frames < MaxSpawn
     /\ \E d \in (IF Draws = SpawnDraws THEN AllDraws ELSE Draws) :
          UpdatePlaying(NoMove, d, TRUE)

SpecSpawn == InitSpawn /\ [][NextSpawn]_vars

\* SpecMove: runs in which the player holds one combination of keys (or
\* gamepad axes) and pointer from the title screen on, until the run ends or
\* MaxMove frames have passed
\* playerVel times a unit vector toward the touch or the cursor
PtrVectors ==
  {[dx |-> 40, dy |-> 0], [dx |-> -40, dy |-> 0], [dx |-> 0, dy |-> 40], [dx |-> 0, dy |-> -40],
   [dx |-> 24, dy |-> 32], [dx |-> -24, dy |-> -32], [dx |-> 32, dy |-> -24],
   [dx |-> -32, dy |-> 24]}

\* every combination of the four directions with no pointer, a touch or the
\* pressed mouse button
MoveInputs ==
  {[touch |-> p.touch, mouseDown |-> p.mouseDown, ptr |-> p.ptr,
    up |-> k.up, down |-> k.down, left |-> k.left, right |-> k.right] :
      p \in {[touch |-> FALSE, mouseDown |-> FALSE, ptr |-> NoPtr]}
              \cup {[touch |-> t, mouseDown |-> ~t, ptr |-> v] : t \in BOOLEAN, v \in PtrVectors},
      k \in [up : BOOLEAN, down : BOOLEAN, left : BOOLEAN, right : BOOLEAN]}

\* the player changes what is held while the title screen shows
Hold(in) ==
  /\ game.state = "Title" /\ ~game.panicked
  /\ held' = in
  /\ UNCHANGED <<storeVars, th, histVars, game, sub, cset, webItem>>

\* two obstacles whose lower edge is at y = 202, above the start row
MoveDraws == {[h |-> 100, y |-> 102], [h |-> 179, y |-> 23]}

InitMove == \E cfg \in {DefaultCfg, JumpCfg} : StoreInit(<< >>, cfg)

NextMove ==
  \/ \E in \in MoveInputs : Hold(in)
  \/ UpdateTitle(IF wver < MaxRuns THEN StartInput ELSE NoTitleInput, TRUE)
  \/ /\ game.frames < MaxMove
     /\ \E d \in (IF Draws = SpawnDraws THEN MoveDraws ELSE Draws) :
          UpdatePlaying(held, d, TRUE)

SpecMove == InitMove /\ [][NextMove]_vars

\* ------------------------------------------------------------------ claims
\* a TopWinners call of thread t has returned a list
TopReturned(t) == th[t].pc = "ret" /\ th[t].op = "TopWinners" /\ th[t].err = "nil"

\* score descending, equal scores by id ascending
Outranks(a, b) == a.score > b.score \/ (a.score = b.score /\ a.id < b.id)
SortedByRank(ws) == \A i, j \in DOMAIN ws : i < j => Outranks(ws[i], ws[j])

\* ws is the top n of the rows d
IsTopN(ws, d, n) ==
  /\ SortedByRank(ws)
  /\ Range(ws) \subseteq Range(d)
  /\ Len(ws) = Min(n, Len(d))
  /\ \A r \in Range(d) \ Range(ws) : \A w \in Range(ws) : Outranks(w, r)

\* C1: once a SaveWinner has returned nil, no TopWinners call that starts
\* afterwards returns a list that was read from the table before that INSERT.
C1_NoStaleRead ==
  \A t \in Threads : TopReturned(t) => th[t].ver >= th[t].need

\* C2: every list TopWinners(n) returns is ordered by score descending, equal
\* scores by id ascending, and has at most n entries.
C2_SortedAndBounded ==
  \A t \in Threads :
    TopReturned(t) => SortedByRank(th[t].out) /\ Len(th[t].out) <= th[t].limit

\* C2 witness: a call returned two of three rows, in an order that is not the
\* order of insertion
C2_Witness ==
  \E t \in Threads :
    /\ TopReturned(t)
    /\ Len(db) = 3
    /\ Len(th[t].out) = 2
    /\ th[t].out[1].id > th[t].out[2].id

\* C4: every list TopWinners(n) returns is the top n of the rows the table held
\* at one instant between the creation of the store and the return of the call.
C4_SnapshotRead ==
  \A t \in Threads :
    TopReturned(t) => \E d \in dbHist : IsTopN(th[t].out, d, th[t].limit)

\* C4 witness: a call returns while another thread is between its INSERT and
\* its InvalidateAll
C4_Witness ==
  \E t, u \in Threads :
    /\ TopReturned(t)
    /\ th[u].pc = "sw_inval"
    /\ Len(th[t].out) = 2


\* a TopWinners(10) call that follows a successful SaveWinner of the same caller
SavedThenTop(t) ==
  TopReturned(t) /\ th[t].limit = DefaultLimit /\ last.op = "SaveWinner"

\* entry i of ws stands below every entry with a higher score and below every
\* earlier entry with the same score
PlacedByRank(ws, i) ==
  \A j \in DOMAIN ws :
    (ws[j].score > ws[i].score \/ (ws[j].score = ws[i].score /\ ws[j].id < ws[i].id))
       => j < i

\* C3 as stated: after a successful SaveWinner(name, score), TopWinners(10)
\* contains an entry with that name and score, placed by rank, whatever the
\* table held before.
C3_AlwaysListed ==
  \A t \in Threads :
    SavedThenTop(t) =>
      \E i \in DOMAIN th[t].out :
        /\ th[t].out[i].name = last.name
        /\ th[t].out[i].score = last.score
        /\ PlacedByRank(th[t].out, i)

\* the rows that rank before the winner saved last
RowsAhead ==
  {r \in Range(db) : r.score > last.score \/ (r.score = last.score /\ r.id < last.id)}

\* C3 amended: when fewer than 10 rows have a score greater than or equal to
\* the new score, TopWinners(10) right after the successful SaveWinner contains
\* the new winner with its name and score, placed by rank.
C3_ListedWhenInTop10 ==
  \A t \in Threads :
    (SavedThenTop(t) /\ Cardinality(RowsAhead) < DefaultLimit) =>
      \E i \in DOMAIN th[t].out :
        /\ th[t].out[i].id = last.id
        /\ th[t].out[i].name = last.name
        /\ th[t].out[i].score = last.score
        /\ i = Cardinality(RowsAhead) + 1
        /\ PlacedByRank(th[t].out, i)

\* C3 witness: the new winner is listed after nine rows that rank before it
C3_Witness ==
  \E t \in Threads :
    /\ SavedThenTop(t)
    /\ Cardinality(RowsAhead) = DefaultLimit - 1
    /\ th[t].out[DefaultLimit].id = last.id

\* C8: a SaveWinner call whose name is empty after trimming returns an error
\* and inserts nothing, so no row ever has a name that trims to the empty string.
C8_BlankNameRejected ==
  /\ \A i \in DOMAIN db : TrimSpace(db[i].name) # << >>
  /\ \A t \in Threads :
       (th[t].op = "SaveWinner" /\ TrimSpace(th[t].name) = << >>)
          => (th[t].pc = "ret" /\ th[t].err # "nil")

\* C9: every SaveWinner, TopWinners and Reset call that starts after Close has
\* returned ends with an error.
C9_FailAfterClose ==
  \A t \in Threads :
    (th[t].pc = "ret" /\ th[t].afterClose) => th[t].err # "nil"

\* C10, in states: a Reset that returned nil has emptied the table and the cache;
\* the TopWinners that follows it returns the empty list; every list returned
\* is the top n of a content the table has had as a whole.
C10_ResetClears ==
  \A t \in Threads :
    /\ (th[t].pc = "ret" /\ th[t].op = "Reset" /\ th[t].err = "nil")
          => (db = << >> /\ items = EmptyItems)
    /\ (TopReturned(t) /\ last.op = "Reset") => th[t].out = << >>
    /\ TopReturned(t) => \E d \in dbHist : IsTopN(th[t].out, d, th[t].limit)

\* C10, in steps: a Reset that returns an error has changed neither the table
\* nor the cache
C10_FailedResetKeeps ==
  \A t \in Threads :
    (th[t].pc = "idle" /\ th'[t].pc = "ret" /\ th'[t].op = "Reset")
       => (th'[t].err # "nil" /\ db' = db /\ items' = items)

SessionEdges ==
  {<<"Title", "Playing">>, <<"Playing", "NameEntry">>,
   <<"NameEntry", "Leaderboard">>, <<"Leaderboard", "Title">>}

C5_OneEdgePerTick ==
  game'.state = game.state \/ <<game.state, game'.state>> \in SessionEdges

\* C5: the session state starts as Title, and every tick either leaves it
\* unchanged or moves it along exactly one of Title->Playing,
\* Playing->NameEntry, NameEntry->Leaderboard, Leaderboard->Title.
C5_SessionStateMachine == game.state = "Title" /\ [][C5_OneEdgePerTick]_vars

\* a run was played, submitted and saved, and the game is back at the title
C5_Witness == game.state = "Title" /\ sub # NoSubmit /\ sub.saveErr = "nil"

\* a tick of NameEntry that submits
C6_IsSubmit == game.state = "NameEntry" /\ sub = NoSubmit /\ sub' # NoSubmit

C6_SubmitStep ==
  C6_IsSubmit =>
    /\ game'.state = "Leaderboard"
    /\ sub'.ret = "nil"
    /\ game'.score = game.score
    /\ sub'.score = game.score
    /\ (sub'.topErr # "nil" => game'.leaders = << >>)

\* C6: a submit in NameEntry moves the state to Leaderboard on that tick
\* whatever SaveWinner and TopWinners return; Update returns nil, the score is
\* unchanged, and the displayed list is empty when TopWinners failed.
C6_SubmitAlwaysAdvances == [][C6_SubmitStep]_vars

\* a run with score 1 was submitted while both store calls failed
C6_Witness ==
  /\ game.state = "Leaderboard" /\ game.score = 1 /\ game.leaders = << >>
  /\ sub.saveErr = "db" /\ sub.topErr = "db"

\* the number of characters of a byte string, as Go decodes UTF-8: a lead byte
\* with its continuation bytes is one character, any other byte is one
\* character by itself
IsCont(b) == b \in 128..191
SeqLen(b) == IF b \in 194..223 THEN 2 ELSE IF b \in 224..239 THEN 3
             ELSE IF b \in 240..244 THEN 4 ELSE 1
WholeRune(buf) ==
  /\ Len(buf) >= SeqLen(buf[1])
  /\ \A i \in 2..SeqLen(buf[1]) : IsCont(buf[i])
RECURSIVE RuneCount(_)
RuneCount(buf) ==
  IF buf = << >> THEN 0
  ELSE IF WholeRune(buf)
         THEN 1 + RuneCount(SubSeq(buf, SeqLen(buf[1]) + 1, Len(buf)))
         ELSE 1 + RuneCount(Tail(buf))

IsTrimmed(n) == n = << >> \/ (~IsSpaceByte(n[1]) /\ ~IsSpaceByte(n[Len(n)]))
IsBlank(buf) == \A i \in 1..Len(buf) : IsSpaceByte(buf[i])

\* C7: the name a submit passes to SaveWinner is trimmed, non-empty and at
\* most 16 characters long, it is "PLAYER" when the typed buffer is blank, and
\* no stored Winner has an empty name.
C7_NamePassed ==
  /\ sub # NoSubmit =>
       /\ IsTrimmed(sub.name)
       /\ sub.name # << >>
       /\ RuneCount(sub.name) <= 16
       /\ (IsBlank(sub.buf) => sub.name = NamePLAYER)
  /\ \A i \in 1..Len(db) : db[i].name # << >>


\* a direct Get of thread t has returned
GetReturned(t) == th[t].pc = "ret" /\ th[t].op = "Get"

\* C11: with TTL = 0 every Get returns found = false, also a Get at the clock
\* instant of the Set before it.
C11_ZeroTTLNeverHits ==
  ttl = 0 => \A t \in Threads : GetReturned(t) => ~th[t].found

\* the Set of Get's limit had returned when the Get started, its TTL has not
\* elapsed, and no Set or InvalidateAll has taken effect since the Get started
SetStands(t) ==
  /\ cset.seq = th[t].need
  /\ th[t].limit \in DOMAIN cset.m
  /\ now < cset.m[th[t].limit].expiresAt

\* C12: a Get that starts after Set(L, v) has returned and before its TTL
\* elapses, with no InvalidateAll and no later Set(L) in between, returns
\* (v, true), whatever other Gets run concurrently.
C12_GetReturnsLastSet ==
  \A t \in Threads :
    (GetReturned(t) /\ SetStands(t)) =>
       th[t].found /\ th[t].out = cset.m[th[t].limit].winners


\* C13: at the end of every tick every obstacle of the list has x + w > 0,
\* the tick that ends a run by collision included.
C13_ObstaclesRightOfBoundary ==
  \A i \in 1..Len(game.obstacles) :
    game.obstacles[i].x + game.obstacles[i].w > 0

\* the run under SlowCfg ended by a collision on its 55th tick, the tick on
\* which its first obstacle crossed the left boundary
C13_Witness ==
  /\ game.cfg = SlowCfg /\ game.state = "NameEntry" /\ game.frames = 54
  /\ Len(game.obstacles) > 1


C14_AtOrAboveFloor ==
  game.state = "Playing" => game.spawnEvery >= game.cfg.SpawnEveryMin

C14_SpeedNotDecreased ==
  (game.state = "Playing" /\ game'.state = "Playing") => game'.speed >= game.speed

\* C14: during a Playing run the spawn interval is never below the configured
\* SpawnEveryMin, and no tick of the run decreases the obstacle speed.
C14_FloorAndSpeed == []C14_AtOrAboveFloor /\ [][C14_SpeedNotDecreased]_vars


C15_StartStep ==
  (game.state = "Title" /\ game'.state = "Playing") =>
     /\ game'.score = 0 /\ game'.frames = 0 /\ game'.obstacles = << >>
     /\ game'.player = StartRect
     /\ game'.speed = game.cfg.BaseSpeed
     /\ game'.spawnEvery = game.cfg.SpawnEveryStart

\* C15: every Title->Playing transition leaves score 0, frame counter 0, no
\* obstacles, the player at its start rectangle, the speed at the configured
\* BaseSpeed and the spawn interval at the configured SpawnEveryStart.
C15_StartFromBaseline == [][C15_StartStep]_vars


\* a Playing run has made k * AccelIntervalFrames collision-free ticks
RampedTimes(k) ==
  /\ game.state = "Playing" /\ ~game.panicked
  /\ game.cfg.AccelIntervalFrames >= 1
  /\ game.frames = k * game.cfg.AccelIntervalFrames

\* C16: after AccelIntervalFrames * k collision-free ticks of a run the spawn
\* interval is k steps of 4 below its value at the start of the run, or fewer
\* steps once it is at or below the floor, and the speed is k * SpeedAccel
\* above its value at the start of the run.
C16_RampByK ==
  \A k \in 0..game.frames :
    RampedTimes(k) =>
      /\ game.speed = ResetPlay(game).speed + k * game.cfg.SpeedAccel
      /\ \E j \in 0..k :
           /\ game.spawnEvery = ResetPlay(game).spawnEvery - 4 * j
           /\ (j < k => game.spawnEvery <= game.cfg.SpawnEveryMin)

\* under StepCfg six ramps have been due and the interval has stopped at the
\* floor after five
C16_Witness ==
  /\ game.cfg = StepCfg /\ RampedTimes(6)
  /\ game.spawnEvery = 40 /\ game.speed = Px(16)


\* C17: no Playing tick faults: the spawn interval and AccelIntervalFrames are
\* at least 1 whenever a tick uses them as a modulus, for every settings file
\* that Load and New accept.
C17_NoTickPanics ==
  /\ ~game.panicked
  /\ game.state = "Playing" => (game.spawnEvery >= 1 /\ game.cfg.AccelIntervalFrames >= 1)


\* the list shows an entry with the given name and score
Shows(list, name, score) ==
  \E i \in 1..Len(list) : list[i].name = name /\ list[i].score = score

\* a submit whose SaveWinner and TopWinners both succeed
C18_IsSavedSubmit ==
  /\ game.state = "NameEntry" /\ sub = NoSubmit /\ sub' # NoSubmit
  /\ sub'.saveErr = "nil" /\ sub'.topErr = "nil"

\* fewer than TopN stored entries have a score at or above the run's
C18_RoomInTopN ==
  Cardinality({i \in 1..Len(db) : db[i].score >= game.score}) < NormLimit(game.cfg.TopN)

C18_ShownAfterSubmit ==
  C18_IsSavedSubmit =>
     game'.state = "Leaderboard" /\ Shows(game'.leaders, sub'.name, game.score)

C18_ShownAfterSubmitIfRoom ==
  (C18_IsSavedSubmit /\ C18_RoomInTopN) =>
     game'.state = "Leaderboard" /\ Shows(game'.leaders, sub'.name, game.score)

\* a Leaderboard tick with the reset signal alone, on a working store
C18_ResetStep ==
  (game.state = "Leaderboard" /\ UpdateLeaderboard(ResetInput, TRUE, TRUE, TRUE)) =>
     game'.leaders = << >> /\ db' = << >> /\ game'.state = "Leaderboard"

\* C18: with a working store, after a run that ended by collision with score s
\* the submit shows a leaderboard holding the submitted name with score s, and
\* a reset in Leaderboard leaves the shown list and the store empty and the
\* state Leaderboard.
C18_SubmitShownThenReset == [][C18_ShownAfterSubmit /\ C18_ResetStep]_vars

\* C18 as amended: the same, for a submit made when fewer than TopN stored
\* entries have a score at or above s.
C18_SubmitShownIfRoomThenReset == [][C18_ShownAfterSubmitIfRoom /\ C18_ResetStep]_vars

\* a run with score 1 was saved as the tenth row of the store, and a reset has
\* emptied the store and the shown list
C18_Witness ==
  /\ game.state = "Leaderboard" /\ game.score = 1 /\ sub.saveErr = "nil"
  /\ game.leaders = << >> /\ db = << >>
  /\ \E h \in dbHist : Len(h) = MaxPrior /\ h[Len(h)].name = sub.name /\ h[Len(h)].score = 1


\* C19: a TopWinners call that finds the durable store unreadable returns an
\* error, not a list, and leaves the cache without an entry for its limit.
C19_UnreadableIsAnError ==
  \A t \in Threads :
    (th[t].pc = "ret" /\ th[t].op = "TopWinners" /\ th[t].ver = -1) =>
       th[t].err # "nil" /\ ~CacheHas(items, th[t].limit)


\* the strict AABB test
C20_Overlap(a, b) ==
  a.x < b.x + b.w /\ a.x + a.w > b.x /\ a.y < b.y + b.h /\ a.y + a.h > b.y

\* the obstacles a tick works on: the list, with the obstacle of draw d when
\* the tick spawns
C20_Field(d) ==
  IF game.frames % game.spawnEvery = 0
    THEN Append(game.obstacles, [x |-> Px(screenWidth), y |-> Px(d.y), w |-> Px(20), h |-> Px(d.h)])
    ELSE game.obstacles

\* the speed of the tick
C20_Speed ==
  IF game.frames % game.cfg.AccelIntervalFrames = 0
    THEN game.speed + game.cfg.SpeedAccel ELSE game.speed

\* the obstacles of the field that overlap the player once advanced
C20_Hits(d) ==
  {i \in 1..Len(C20_Field(d)) :
     C20_Overlap(game'.player, [C20_Field(d)[i] EXCEPT !.x = @ - C20_Speed])}

C20_TickStep(d) ==
  (/\ game.state = "Playing" /\ game.spawnEvery >= 1 /\ game.cfg.AccelIntervalFrames >= 1
   /\ UpdatePlaying(NoMove, d, TRUE)) =>
     /\ game'.state = (IF C20_Hits(d) # {} THEN "NameEntry" ELSE "Playing")
     /\ \A f \in C20_Hits(d) :
          (\A i \in C20_Hits(d) : f <= i) =>
             /\ Len(game'.obstacles) = Len(C20_Field(d))
             /\ \A i \in (f + 1)..Len(C20_Field(d)) : game'.obstacles[i] = C20_Field(d)[i]

\* C20: a Playing tick moves to NameEntry exactly when an obstacle, once
\* advanced, overlaps the player by the strict AABB test (a shared edge is no
\* overlap); the first such obstacle ends the tick, and the obstacles after it
\* are left as they were.
C20_CollisionIffOverlap == [][\A d \in PlayDraws : C20_TickStep(d)]_vars

\* the 55th tick under SlowCfg: the first obstacle left the field, the second
\* shares only its lower edge with the player's upper edge, the third
\* overlaps the player and ended the run, the fourth was not advanced
C20_Witness ==
  /\ game.cfg = SlowCfg /\ game.state = "NameEntry" /\ game.frames = 54
  /\ Len(game.obstacles) >= 4
  /\ game.obstacles[1] = [x |-> 432, y |-> Px(240), w |-> Px(20), h |-> Px(40)]
  /\ game.obstacles[2].x = 824 /\ C20_Overlap(game.player, game.obstacles[2])
  /\ game.obstacles[4].x = 2060


\* the input of a NameEntry tick holds no submit: neither Enter nor Space was
\* pressed and no mouse button was clicked
C21_NoSubmitInput(in) == ~in.enter /\ ~in.space /\ ~in.click

\* buf starts with the bytes of pre
C21_Extends(buf, pre) == Len(buf) >= Len(pre) /\ SubSeq(buf, 1, Len(pre)) = pre

C21_QuietTick(in, okSave, okTop) ==
  (/\ game.state = "NameEntry" /\ C21_NoSubmitInput(in)
   /\ UpdateNameEntry(in, TRUE, okSave, okTop)) =>
     /\ game'.state = "NameEntry"
     /\ db' = db
     /\ (~in.backspace => C21_Extends(game'.nameInput, game.nameInput))

\* C21: a NameEntry tick whose input holds no submit (Enter, Space, click)
\* leaves the state NameEntry, saves nothing and keeps what was typed; the
\* game leaves NameEntry only on a tick with such an input.
C21_LeavesOnlyOnSubmit ==
  [][\A in \in NameInputs(GameChunks), okSave, okTop \in BOOLEAN :
        C21_QuietTick(in, okSave, okTop)]_vars


C22_ScoreOfFrames == game.score >= 0 /\ game.score = game.frames \div 10

C22_ScoreStep ==
  (game.state = "Playing" /\ game'.state = "Playing") =>
     /\ game'.score >= game.score
     /\ game'.score = (IF game'.frames # game.frames /\ game'.frames % 10 = 0
                         THEN game.score + 1 ELSE game.score)

\* C22: in every state the score is the tick counter divided by 10, rounded
\* down; it is never negative, no tick of a run decreases it, and it grows by
\* exactly 1 on each tick that brings the tick counter to a multiple of 10.
C22_ScoreIsFramesOverTen == []C22_ScoreOfFrames /\ [][C22_ScoreStep]_vars

\* a run under the default settings has counted its 50th tick
C22_Witness ==
  game.state = "Playing" /\ game.cfg = DefaultCfg /\ game.frames = 50 /\ game.score = 5


\* the tick that detects a collision
C23_CollisionTick ==
  (game.state = "Playing" /\ game'.state = "NameEntry") =>
     /\ game'.nameInput = << >>
     /\ game'.score = game.score
     /\ game'.frames = game.frames

\* a tick of NameEntry or Leaderboard
C23_FrozenTick ==
  game.state \in {"NameEntry", "Leaderboard"} =>
     /\ game'.score = game.score
     /\ game'.frames = game.frames
     /\ game'.obstacles = game.obstacles
     /\ game'.player = game.player
     /\ game'.speed = game.speed
     /\ game'.spawnEvery = game.spawnEvery

\* C23: the tick that detects a collision clears the name buffer and changes
\* neither the score nor the tick counter; no tick of NameEntry or Leaderboard
\* changes the score, the tick counter, the obstacle list, the player
\* rectangle, the obstacle speed or the spawn interval.
C23_CollisionFreezesRun == [][C23_CollisionTick /\ C23_FrozenTick]_vars

\* the second run has ended by collision with score 1 and an empty name buffer,
\* after the first run was submitted from the buffer "A"
C23_Witness ==
  /\ game.state = "NameEntry" /\ game.nameInput = << >> /\ game.score = 1
  /\ sub = NoSubmit /\ Len(db) = 1 /\ db[1].name = NameA


\* the buffer after the characters of a tick, counted in characters: a
\* character is appended exactly when it is neither newline nor carriage
\* return and the buffer holds fewer than 16 characters
RECURSIVE C24_Append(_, _)
C24_Append(buf, chars) ==
  IF chars = << >> THEN buf
  ELSE IF Head(chars) \in {RuneNL, RuneCR} THEN C24_Append(buf, Tail(chars))
  ELSE IF RuneCount(buf) < 16 THEN C24_Append(buf \o Head(chars), Tail(chars))
  ELSE C24_Append(buf, Tail(chars))

\* a NameEntry tick that types chars while a finger rests on the screen
C24_TypingInput(chars) ==
  [chars |-> chars, backspace |-> FALSE, enter |-> FALSE, space |-> FALSE,
   click |-> FALSE, touch |-> TRUE]

C24_TypingTick(chars) ==
  (game.state = "NameEntry" /\ UpdateNameEntry(C24_TypingInput(chars), TRUE, TRUE, TRUE)) =>
     game'.nameInput = C24_Append(game.nameInput, chars)

C24_AtMost16 == game.state = "NameEntry" => RuneCount(game.nameInput) <= 16

\* C24: in NameEntry the name buffer never holds more than 16 characters, and
\* a typed character is appended exactly when it is neither newline nor
\* carriage return and the buffer holds fewer than 16 characters, for one or
\* several characters a tick and for characters of more than one byte.
C24_AppendsBelow16 ==
  []C24_AtMost16 /\ [][\A chars \in PlainChunks \cup OddChunks : C24_TypingTick(chars)]_vars


\* the bytes of buf from position k + 1 on are one whole character
C25_OneChar(buf, k) ==
  LET r == SubSeq(buf, k + 1, Len(buf))
  IN  WholeRune(r) /\ SeqLen(r[1]) = Len(r)

\* buf without its last character
C25_DropLast(buf) ==
  IF buf = << >> THEN << >>
  ELSE LET K == {k \in 0..(Len(buf) - 1) : C25_OneChar(buf, k)}
       IN  SubSeq(buf, 1, CHOOSE k \in K : \A j \in K : k <= j)

\* a NameEntry tick with a backspace, no typed character and no submit
C25_BackspaceInput ==
  [chars |-> << >>, backspace |-> TRUE, enter |-> FALSE, space |-> FALSE,
   click |-> FALSE, touch |-> TRUE]

C25_BackspaceTick ==
  (game.state = "NameEntry" /\ UpdateNameEntry(C25_BackspaceInput, TRUE, TRUE, TRUE)) =>
     /\ game'.nameInput = C25_DropLast(game.nameInput)
     /\ game'.state = "NameEntry"

\* C25: in NameEntry a backspace removes exactly the last character of a
\* non-empty name buffer, also a character of more than one byte, and leaves
\* an empty buffer unchanged; the state stays NameEntry.
C25_BackspaceDropsLastChar == [][C25_BackspaceTick]_vars


\* the steps of a direct Get of thread t: the read of the map, the test of
\* the clock, the eviction
C26_GetStep(t) ==
  /\ (th[t].pc = "idle" /\ th'[t].op = "Get") =>
        /\ (th'[t].pc = "ret") = ~CacheHas(items, th'[t].limit)
        /\ th'[t].pc = "ret" => ~th'[t].found
  /\ (th[t].pc = "cg_check" /\ th'[t].pc # "cg_check") =>
        /\ (th'[t].pc = "ret" /\ th'[t].found) = (now < th[t].item.expiresAt)
        /\ ~(th'[t].pc = "ret" /\ th'[t].found) => th'[t].pc = "cg_del"
  /\ (th[t].pc = "cg_del" /\ th'[t].pc # "cg_del") =>
        /\ th'[t].pc = "ret" /\ ~th'[t].found
        /\ ~CacheHas(items', th[t].limit)

\* C26: Get(limit) returns found = false exactly when the map holds no entry
\* for limit or the clock is at or past the entry's expiresAt, and a Get that
\* finds an expired entry leaves the map without an entry for that limit.
C26_MissIffAbsentOrExpired == [][\A t \in Threads : C26_GetStep(t)]_vars


\* no store call is under way
C27_Quiet == \A t \in Threads : th[t].pc \in {"idle", "ret"}

C27_EntriesCurrent ==
  C27_Quiet =>
    \A L \in DOMAIN items :
      ~Expired(items[L], now) => IsTopN(items[L].winners, db, L)

C27_EmptyAfterWrite ==
  \A t \in Threads :
    (th[t].pc = "ret" /\ th[t].op \in {"SaveWinner", "Reset"} /\ th[t].err = "nil")
       => items = EmptyItems

\* C27: with store calls that do not overlap, every unexpired cache entry for
\* a limit L is the top L (score descending, id ascending) of the rows the
\* table holds, and the cache has no entry when a successful SaveWinner or
\* Reset returns.
C27_CacheCoherent == C27_EntriesCurrent /\ C27_EmptyAfterWrite

\* the entry of limit 10 was filled after an INSERT into a table of MaxPrior
\* rows and lists the new winner first
C27_Witness ==
  /\ C27_Quiet /\ Len(db) = MaxPrior + 1
  /\ CacheHas(items, DefaultLimit) /\ ~Expired(items[DefaultLimit], now)
  /\ Len(items[DefaultLimit].winners) = DefaultLimit
  /\ items[DefaultLimit].winners[1].id = MaxPrior + 1


\* limits at or below zero
C28_NoLimits == {-1, 0}

\* the call with limit l and the call with limit 10 return the same list and
\* error and leave the same cache, in the store as it is
C28_SameAsTen ==
  C27_Quiet =>
    \A l \in C28_NoLimits, ok \in BOOLEAN :
      CallTopWinners(CurStore, l, ok) = CallTopWinners(CurStore, DefaultLimit, ok)

C28_KeysPositive == \A k \in DOMAIN items : k >= 1

\* C28: TopWinners(limit) with limit <= 0 returns what TopWinners(10) returns
\* in the same store state and reads and fills the cache entry keyed 10; no
\* cache entry is keyed by a limit <= 0.
C28_DefaultLimitIsTen == C28_SameAsTen /\ C28_KeysPositive

\* TopWinners(0) has returned the top 10 of MaxPrior + 1 rows and filled the
\* entry keyed 10
C28_Witness ==
  /\ TopReturned("t1") /\ th["t1"].limit = DefaultLimit
  /\ Len(db) = MaxPrior + 1 /\ Len(th["t1"].out) = DefaultLimit
  /\ CacheHas(items, DefaultLimit) /\ items[DefaultLimit].winners = th["t1"].out


\* a Playing tick appends at most one obstacle
C29_OneSpawnPerTick ==
  game.state = "Playing" => Len(game'.obstacles) <= Len(game.obstacles) + 1

\* a tick that spawns comes at least SpawnEveryMin ticks after the spawn before
C29_SpawnGap ==
  (game.state = "Playing" /\ game'.lastSpawn # game.lastSpawn /\ game.lastSpawn >= 0) =>
     game'.lastSpawn - game.lastSpawn >= game.cfg.SpawnEveryMin

\* C29: in a Playing run, under every configuration, a tick spawns at most one
\* obstacle, and two consecutive spawns are at least SpawnEveryMin ticks
\* apart, also across the ticks on which the ramp changes the spawn interval.
C29_SpawnsApart == [][C29_OneSpawnPerTick /\ C29_SpawnGap]_vars


\* the obstacle a spawning tick has appended: the last of the list, advanced
\* by the tick's speed unless a hit ended the tick before its turn
C30_Spawned == game'.obstacles[Len(game'.obstacles)]

C30_SpawnTick ==
  (game.state = "Playing" /\ game'.lastSpawn # game.lastSpawn) =>
     /\ Len(game'.obstacles) >= 1
     /\ C30_Spawned.x \in {Px(screenWidth), Px(screenWidth) - game'.speed}
     /\ C30_Spawned.w = Px(20)
     /\ Px(40) <= C30_Spawned.h /\ C30_Spawned.h < Px(180)
     /\ 0 <= C30_Spawned.y
     /\ C30_Spawned.y + C30_Spawned.h <= Px(screenHeight)

\* C30: every obstacle is created with its left edge at x = 800, width 20, a
\* height h with 40 <= h < 180 and a vertical position y with 0 <= y and
\* y + h <= 600, whatever the random draws return.
C30_SpawnedInsideField == [][C30_SpawnTick]_vars

\* the tallest obstacle at its lowest position: height 179 at y = 420
C30_Witness ==
  /\ game.state = "Playing" /\ game.lastSpawn = 0 /\ Len(game.obstacles) = 1
  /\ game.obstacles[1].h = Px(179) /\ game.obstacles[1].y = Px(screenHeight - 180)
  /\ game.obstacles[1].x = Px(screenWidth) - game.speed


\* ---- C31
\* the obstacles the loop of a Playing tick visits (d: the draws of its spawn)
C31_Visited(d) ==
  IF game.frames % game.spawnEvery = 0 THEN SpawnObstacle(game.obstacles, d)
                                       ELSE game.obstacles

\* those of them whose right edge, after advancing by the speed of the tick, is
\* at or left of the left boundary (gone = TRUE), or right of it (gone = FALSE)
C31_Part(obs, speed, gone) ==
  SelectSeq(obs, LAMBDA o : (o.x - speed + o.w <= 0) = gone)

\* a Playing tick: the obstacles that end it at or beyond the left boundary do
\* not touch off the collision, and a tick that moves to the name entry has an
\* obstacle right of the boundary that overlaps the player
C31_Tick ==
  \A d \in MoveDraws :
    UpdatePlaying(held, d, TRUE) =>
      /\ ~MoveObstacles(C31_Part(C31_Visited(d), game'.speed, TRUE), 1, << >>,
                        game'.player, game'.speed).hit
      /\ game'.state = "NameEntry" =>
           MoveObstacles(C31_Part(C31_Visited(d), game'.speed, FALSE), 1, << >>,
                         game'.player, game'.speed).hit

\* C31: an obstacle whose right edge is at or left of the left boundary after
\* advancing never triggers the transition from Playing to NameEntry on that
\* tick, wherever the held movement inputs have taken the player
C31_GoneObstacleNeverHits == [][C31_Tick]_vars

\* the player has been pushed against the left boundary into the rows of the
\* obstacle spawned at frame 0, on the tick that took that obstacle's right
\* edge onto the boundary: the obstacle is dropped and the run goes on
C31_Witness ==
  /\ game.state = "Playing" /\ game.cfg = JumpCfg /\ game.frames = 20
  /\ game.lastSpawn = 0 /\ game.obstacles = << >>
  /\ game.player.x = 0 /\ game.player.y = Px(200)


\* ---- C38
\* C38: at the end of every tick the player rectangle lies inside the field,
\* 0 <= x, x + w <= 800, 0 <= y, y + h <= 600, whatever keys, gamepad axes and
\* pointer are held, and its width and height are those of the start
C38_PlayerInsideField ==
  /\ 0 <= game.player.x /\ game.player.x + game.player.w <= Px(screenWidth)
  /\ 0 <= game.player.y /\ game.player.y + game.player.h <= Px(screenHeight)
  /\ game.player.w = StartRect.w /\ game.player.h = StartRect.h

\* a run in which Right, Down and a drag to the right are held: 8 px a frame
\* would carry the player past the right edge on the 89th frame and 4 px a
\* frame past the lower edge on the 73rd
C38_Witness ==
  /\ game.state = "Playing" /\ game.frames >= 89
  /\ held.right /\ held.down /\ ~held.left /\ ~held.up
  /\ held.touch /\ held.ptr = [dx |-> 40, dy |-> 0]
  /\ game.player.x + game.player.w = Px(screenWidth)
  /\ game.player.y + game.player.h = Px(screenHeight)


\* ---- C32
\* the run of k ticks with the given settings in which nothing is pressed and
\* nothing is hit: resetPlay, then the ramp of Update on every frame due
RECURSIVE C32_QuietRun(_, _)
C32_QuietRun(cfg, k) ==
  IF k = 0 THEN ResetPlay(NewGame(cfg))
  ELSE LET g == C32_QuietRun(cfg, k - 1)
       IN  [(IF g.frames % cfg.AccelIntervalFrames = 0 THEN Ramp(g) ELSE g)
              EXCEPT !.frames = @ + 1]

\* C32: the spawn interval and the obstacle speed at a tick of a Playing run
\* depend only on the configuration and on the number of ticks elapsed in the
\* run: every run, whatever its movement inputs and obstacle placements, has
\* the interval and the speed of the quiet run with the same settings at the
\* same tick count (so any two runs agree)
C32_RampByTickCount ==
  (game.state = "Playing" /\ ~game.panicked /\ game.cfg.AccelIntervalFrames # 0) =>
    /\ game.spawnEvery = C32_QuietRun(game.cfg, game.frames).spawnEvery
    /\ game.speed = C32_QuietRun(game.cfg, game.frames).speed

\* eleven frames into a run that ramps every frame, with the player dragged
\* off its start row and an obstacle placed across that row
C32_Witness ==
  /\ game.state = "Playing" /\ game.cfg = MedCfg /\ game.frames = MaxFrames
  /\ game.player.y # StartRect.y
  /\ \E i \in DOMAIN game.obstacles : game.obstacles[i].y = Px(200)
  /\ game.speed = Px(4) + MaxFrames * 105


\* ---- C33
\* every id the table has held, the deleted ones included
C33_AssignedIds == UNION {{rows[i].id : i \in DOMAIN rows} : rows \in dbHist}

\* the step in which thread t's SaveWinner commits its INSERT, fails, and the
\* step in which its Reset commits its DELETE
C33_SaveCommits(t) == th[t].pc = "idle" /\ th'[t].pc = "sw_inval"
C33_SaveFails(t) ==
  th[t].pc = "idle" /\ th'[t].pc = "ret" /\ th'[t].op = "SaveWinner" /\ th'[t].err # "nil"
C33_ResetCommits(t) == th[t].pc = "idle" /\ th'[t].pc = "rs_inval"

C33_Step ==
  /\ db' # db => \E t \in Threads : C33_SaveCommits(t) \/ (C33_ResetCommits(t) /\ db' = << >>)
  /\ \A t \in Threads :
       C33_SaveCommits(t) =>
         /\ Len(db') = Len(db) + 1 /\ SubSeq(db', 1, Len(db)) = db
         /\ db'[Len(db')].name = th'[t].name /\ db'[Len(db')].score = th'[t].score
         /\ \A i \in C33_AssignedIds : db'[Len(db')].id > i
  /\ \A t \in Threads : C33_SaveFails(t) => db' = db /\ items' = items

\* C33: for the SQLite-backed Storage the table changes only by a Reset that
\* empties it or by a successful SaveWinner, which adds exactly one Winner whose
\* id is greater than every id assigned before (also those a Reset has deleted)
\* and leaves the rows it found as they were; a SaveWinner that returns an error
\* adds no Winner and leaves the cache unchanged
C33_WinnersOnlyGrow == [][C33_Step]_vars

\* the row the file held has been deleted by a Reset, and the SaveWinner after
\* it has been given the next id, not the deleted one
C33_Witness ==
  /\ wver = 2 /\ << >> \in dbHist /\ PriorRows(1, 0) \in dbHist
  /\ Len(db) = 1 /\ db[1].id = 2 /\ db[1].name = NameA


\* ---- C34
\* score descending; of two winners with equal scores the one saved at the
\* earlier clock reading (its id) comes first
C34_InOrder(ws) ==
  \A i, j \in DOMAIN ws :
    i < j => \/ ws[i].score > ws[j].score
             \/ ws[i].score = ws[j].score /\ ws[i].id <= ws[j].id

\* a TopWinners call of the browser build has read the item and returned
C34_ReadReturned ==
  TopReturned("t1") /\ ~th["t1"].found /\ webItem.kind = "json"

\* C34: for the browser Storage, TopWinners(n) returns the saved winners
\* ordered by score descending with equal scores in insertion order (the
\* earlier-saved winner first), truncated to n
C34_ByScoreThenInsertion ==
  C34_ReadReturned =>
    /\ C34_InOrder(th["t1"].out)
    /\ Len(th["t1"].out) = Min(th["t1"].limit, Len(webItem.rows))
    /\ \A i \in DOMAIN th["t1"].out : \E k \in DOMAIN webItem.rows :
         th["t1"].out[i] = webItem.rows[k]


\* ---- C36
\* some Update can run: the process has not faulted
C36_TickEnabled ==
  ENABLED (\/ UpdateTitle(NoTitleInput, TRUE)
           \/ \E d \in PlayDraws : UpdatePlaying(NoMove, d, TRUE)
           \/ UpdateNameEntry(SubmitInput, TRUE, TRUE, TRUE)
           \/ UpdateLeaderboard(LeaveInput, TRUE, TRUE, TRUE))

\* a tick that finds the exit signal of Title, NameEntry or Leaderboard leaves
\* that state, whatever the store answers
C36_ExitStep ==
  /\ \A in \in TitleInputs, ok \in BOOLEAN :
       (UpdateTitle(in, ok) /\ (in.space \/ in.click \/ in.touch \/ in.pad))
         => game'.state = "Playing"
  /\ \A in \in NameInputs(GameChunks), ok \in BOOLEAN, okSave \in BOOLEAN, okTop \in BOOLEAN :
       (UpdateNameEntry(in, ok, okSave, okTop)
          /\ (in.enter \/ in.space \/ in.click \/ ~in.touch))
         => game'.state = "Leaderboard"
  /\ \A in \in BoardInputs, ok \in BOOLEAN, okReset \in BOOLEAN, okTop \in BOOLEAN :
       (UpdateLeaderboard(in, ok, okReset, okTop) /\ (in.space \/ in.pad))
         => game'.state = "Title"

\* C36: the session machine has no dead end: in every reachable state a tick
\* is enabled, and Title, NameEntry and Leaderboard are each left on the first
\* tick on which their exit signal (start, submit, return) is present
C36_NoDeadEnd == []C36_TickEnabled /\ [][C36_ExitStep]_vars


\* ---- C37
\* the game has called SaveWinner since the run in progress began
C37_Called == sub.saveErr # "none"

\* no call before the run's name entry is left, one call behind every
\* leaderboard that a run has led to
C37_CallsOfRun ==
  /\ game.state \in {"Playing", "NameEntry"} => ~C37_Called
  /\ (game.state = "Leaderboard" /\ ~game.panicked) => C37_Called

\* a tick in Title, Playing or Leaderboard makes no SaveWinner call; a tick of
\* the name entry makes one exactly when it moves on to the leaderboard, with
\* the score the run had at the collision, which the name entry leaves as it was
C37_Step ==
  /\ game.state \in {"Title", "Playing", "Leaderboard"} =>
       /\ nextId' = nextId
       /\ sub' = sub \/ sub' = NoSubmit
  /\ (game.state = "Playing" /\ game'.state = "NameEntry") => game'.score = game.score
  /\ (game.state = "NameEntry" /\ game'.state = "NameEntry") =>
       sub' = sub /\ nextId' = nextId /\ db' = db /\ game'.score = game.score
  /\ (game.state = "NameEntry" /\ game'.state = "Leaderboard") =>
       /\ ~C37_Called /\ sub'.saveErr # "none" /\ sub'.score = game.score
       /\ IF sub'.saveErr = "nil"
            THEN /\ nextId' = nextId + 1 /\ Len(db') = Len(db) + 1
                 /\ db'[Len(db')].score = game.score /\ db'[Len(db')].name = sub'.name
            ELSE nextId' = nextId /\ db' = db

\* C37: every run that ends by collision leads to exactly one SaveWinner call,
\* made on the tick that moves the state from NameEntry to Leaderboard, with
\* the score the run had at the collision; no SaveWinner call is made in
\* Title, Playing or Leaderboard
C37_OneSavePerRun ==
  /\ []C37_CallsOfRun
  /\ [][C37_Step]_vars
  /\ (game.state = "NameEntry") ~> (game.state = "Leaderboard" /\ C37_Called)

\* a run that scored has ended by collision and its one call has stored the score
C37_Witness ==
  /\ game.state = "Leaderboard" /\ game.score >= 1
  /\ sub.saveErr = "nil" /\ sub.score = game.score
  /\ Len(db) = 1 /\ db[1].score = game.score


====
